---- MODULE Spec2Model ----
(***************************************************************************)
(* Turn-based card combat of Spritied_Towards (src/src/main.rs).           *)
(*                                                                         *)
(* The four chapter modules (chapter1 .. chapter4) are copies of one       *)
(* combat engine with different rosters, hands and victory transitions.    *)
(* One encounter is modelled; `chapter` selects which module's code runs.  *)
(* A frame of the Update schedule runs the chained systems in order        *)
(* (chapter1_plugin, main.rs 2865-2885); `pc` is the system about to run.  *)
(* All health and damage values in the source are integral f32 values, so  *)
(* they are modelled as integers.                                          *)
(***************************************************************************)
EXTENDS Integers, Sequences, FiniteSets, TLC

VARIABLES
    chapter,                 \* which chapter module's encounter this is (1..4)
    pc,                      \* the system of the chained Update schedule about to run
    monsters,                \* Monster entities: Health {current, maximum}, Damage, alive = entity exists
    player,                  \* SideCharacter Health {current, maximum}
    hand,                    \* Card entities (their CardType), in spawn order
    current_turn,            \* FightState.current_turn
    first_card_played,       \* TurnState.first_card_played
    cards_played_this_turn,  \* TurnState.cards_played_this_turn
    crystal_power,           \* TurnState.crystal_power
    turn_count,              \* TurnState.turn_count
    pending_air_cards,       \* TurnState.pending_air_cards
    death_screens,           \* number of DeathScreen entities
    victory_screens,         \* number of VictoryScreen entities
    next_state,              \* NextState<GameState> requested by update_victory_screen
    app_exit,                \* an AppExit event has been sent
    pressed_cards,           \* hand positions whose Interaction changed to Pressed this frame
    end_turn_pressed,        \* the EndTurnButton's Interaction changed to Pressed this frame
    turn_start,              \* history: Len(cards_played_this_turn) when the current player turn began
    turn_at_input            \* history: FightState.current_turn when this frame's input arrived

vars == <<chapter, pc, monsters, player, hand, current_turn, first_card_played,
          cards_played_this_turn, crystal_power, turn_count, pending_air_cards,
          death_screens, victory_screens, next_state, app_exit,
          pressed_cards, end_turn_pressed, turn_start, turn_at_input>>

turn_vars == <<first_card_played, cards_played_this_turn, crystal_power,
               turn_count, pending_air_cards>>

(***************************************************************************)
(* Bounds of the model (not program constants).                            *)
(***************************************************************************)
MaxPressed == 2        \* at most this many cards change to Pressed in one frame
MaxHand == 4           \* an end-turn press that grants Air cards is only explored while the hand stays within this size
MaxDeathScreens == 2   \* an end-turn press is only explored while fewer death screens exist
MaxInitHand == 2       \* SpecConfig: length of the configured initial hand

(***************************************************************************)
(* Program constants.                                                      *)
(***************************************************************************)
FIRE_BASE_DAMAGE == 8
FIRE_FIRST_CARD_BONUS == 7
ICE_BASE_DAMAGE == 6
CRYSTAL_BASE_DAMAGE == 4
AIR_BASE_DAMAGE == 2
EARTH_BASE_DAMAGE == 5
HEAL_BASE_DAMAGE == 8
PLAYER_MAX_HEALTH == 100

Chapters == 1..4

\* enum CardType of the chapter's module: Heal exists in chapter4 only
CardType(ch) ==
    IF ch = 4 THEN {"Fire", "Ice", "Air", "Earth", "Crystal", "Heal"}
              ELSE {"Fire", "Ice", "Air", "Earth", "Crystal"}

Turn == {"Player", "Enemy"}

Max(a, b) == IF a >= b THEN a ELSE b

Abs(x) == IF x >= 0 THEN x ELSE 0 - x

Last(s) == s[Len(s)]

Monster(hp, dmg) == [current |-> hp, maximum |-> hp, damage |-> dmg, alive |-> TRUE]

\* mutant: chapter3's monster has the 40 health of chapter1's monsters
RosterChapter1Health(ch) ==
    CASE ch = 1 -> <<Monster(40, 15), Monster(40, 10)>>
      [] ch = 2 -> <<Monster(21, 25), Monster(21, 10)>>
      [] ch = 3 -> <<Monster(40, 50)>>
      [] ch = 4 -> <<Monster(44, 100)>>

\* the rosters spawned by each chapter's chapter1_setup
Roster(ch) ==
    CASE ch = 1 -> <<Monster(40, 15), Monster(40, 10)>>
      [] ch = 2 -> <<Monster(21, 25), Monster(21, 10)>>
      [] ch = 3 -> <<Monster(44, 50)>>
      [] ch = 4 -> <<Monster(44, 100)>>

\* the cards spawned by each chapter's chapter1_setup
InitialHand(ch) ==
    CASE ch = 1 -> <<"Earth", "Crystal", "Fire", "Ice">>
      [] ch = 2 -> <<"Ice", "Earth", "Crystal">>
      [] ch = 3 -> <<"Earth", "Crystal", "Fire", "Ice">>
      [] ch = 4 -> <<"Earth", "Crystal", "Fire", "Ice", "Heal">>

\* mutant: every victory returns to the menu
VictoryNextStateMenu(ch) ==
    IF ch = 4 THEN "None" ELSE "Menu"

\* GameState requested by the chapter's update_victory_screen; chapter4 exits instead
VictoryNextState(ch) ==
    CASE ch = 1 -> "Game2"
      [] ch = 2 -> "Game3"
      [] ch = 3 -> "Game4"
      [] ch = 4 -> "None"

\* GameState requested by an interlude screen (game, game2, game3, game4)
\* when its timer has finished
GameNextState(gs) ==
    CASE gs = "Game" -> "Chapter1"
      [] gs = "Game2" -> "Chapter2"
      [] gs = "Game3" -> "Chapter3"
      [] gs = "Game4" -> "Chapter4"

(***************************************************************************)
(* Damage computation of handle_card_click.                                *)
(***************************************************************************)
\* mutant: the first-card bonus is missing
FireDamageNoBonus(is_first) ==
    FIRE_BASE_DAMAGE

FireDamage(is_first) ==
    IF is_first THEN FIRE_BASE_DAMAGE + FIRE_FIRST_CARD_BONUS
                ELSE FIRE_BASE_DAMAGE

\* mutant: an Earth played before does not cancel the damage
IceDamageIgnoringEarth(played) ==
    IF Len(played) > 0 /\ Last(played) = "Fire"
    THEN ICE_BASE_DAMAGE * 2 ELSE ICE_BASE_DAMAGE

IceDamage(played) ==
    LET doubled == IF Len(played) > 0 /\ Last(played) = "Fire"
                   THEN ICE_BASE_DAMAGE * 2 ELSE ICE_BASE_DAMAGE
    IN IF \E k \in 1..Len(played) : played[k] = "Earth" THEN 0 ELSE doubled

\* mutant: the cards played before add nothing
CrystalDamageNoBonus(played, power) ==
    CRYSTAL_BASE_DAMAGE + power

CrystalDamage(played, power) ==
    CRYSTAL_BASE_DAMAGE + Len(played) * 2 + power

AirDamage == AIR_BASE_DAMAGE

\* mutant: the hand is counted after the played card has left it
EarthDamageAfterRemoval(cards_in_hand_count, turns) ==
    EARTH_BASE_DAMAGE + (cards_in_hand_count - 1) + turns

EarthDamage(cards_in_hand_count, turns) ==
    EARTH_BASE_DAMAGE + cards_in_hand_count + turns

\* chapter4 only: the monster_query iterates the existing Monster entities
IsAnyMonsterFullHp(mons) ==
    \E m \in 1..Len(mons) :
        mons[m].alive /\ Abs(mons[m].current - mons[m].maximum) < 1

HealDamage(mons) ==
    IF IsAnyMonsterFullHp(mons) THEN HEAL_BASE_DAMAGE ELSE 0 - HEAL_BASE_DAMAGE

\* mutant: Fire gets the first-card bonus whenever it is played
CardDamageFireBonus(card_type) ==
    CASE card_type = "Fire"    -> FireDamage(TRUE)
      [] card_type = "Ice"     -> IceDamage(cards_played_this_turn)
      [] card_type = "Crystal" -> CrystalDamage(cards_played_this_turn, crystal_power)
      [] card_type = "Air"     -> AirDamage
      [] card_type = "Earth"   -> EarthDamage(Len(hand), turn_count)
      [] card_type = "Heal"    -> HealDamage(monsters)

\* `damage` of handle_card_click for the card kind being played
CardDamage(card_type) ==
    CASE card_type = "Fire"    -> FireDamage(first_card_played)
      [] card_type = "Ice"     -> IceDamage(cards_played_this_turn)
      [] card_type = "Crystal" -> CrystalDamage(cards_played_this_turn, crystal_power)
      [] card_type = "Air"     -> AirDamage
      [] card_type = "Earth"   -> EarthDamage(Len(hand), turn_count)
      [] card_type = "Heal"    -> HealDamage(monsters)

\* monster_health.current = (monster_health.current - damage).max(0.0)
DealDamage(current, damage) == Max(current - damage, 0)

\* mutant: a monster brought to 0 is not despawned
DamageMonstersKeepDead(mons, damage) ==
    [m \in 1..Len(mons) |->
        IF mons[m].alive
        THEN [mons[m] EXCEPT !.current = DealDamage(mons[m].current, damage)]
        ELSE mons[m]]

\* the "Deal damage" loop: every Monster entity is hit; one at 0 is despawned
DamageMonsters(mons, damage) ==
    [m \in 1..Len(mons) |->
        IF mons[m].alive
        THEN LET h == DealDamage(mons[m].current, damage)
             IN [mons[m] EXCEPT !.current = h, !.alive = (h > 0)]
        ELSE mons[m]]

\* mutant: the played card is not despawned
RemoveAtKeep(s, i) == s

RemoveAt(s, i) == SubSeq(s, 1, i - 1) \o SubSeq(s, i + 1, Len(s))

(***************************************************************************)
(* Enemy turn of process_turn.                                             *)
(***************************************************************************)
\* monster_attacks: the Damage of every living monster, in iteration order
MonsterAttacks(mons) ==
    LET living == SelectSeq(mons, LAMBDA mo : mo.alive /\ mo.current > 0)
    IN [k \in 1..Len(living) |-> living[k].damage]

\* the loop over monster_attacks: health after each hit, a death screen per
\* hit that leaves the player at 0
RECURSIVE ApplyAttacks(_, _, _)
ApplyAttacks(health, screens, attacks) ==
    IF attacks = <<>> THEN [health |-> health, screens |-> screens]
    ELSE LET h == Max(health - Head(attacks), 0)
         IN ApplyAttacks(h, IF h <= 0 THEN screens + 1 ELSE screens, Tail(attacks))

\* mutant: the range is inclusive (0..=pending_air_cards)
AirCardsInclusive(n) == [k \in 1..(n + 1) |-> "Air"]

\* for _ in 0..pending_air_cards { spawn_card(Air) }
AirCards(n) == [k \in 1..n |-> "Air"]

AllMonstersDead(mons) ==
    \A m \in 1..Len(mons) : mons[m].alive => mons[m].current <= 0

(***************************************************************************)
(* Initial states.                                                         *)
(***************************************************************************)
InitCommon ==
    /\ pc = "ui_focus"
    /\ player = [current |-> PLAYER_MAX_HEALTH, maximum |-> PLAYER_MAX_HEALTH]
    /\ current_turn = "Player"
    /\ first_card_played = TRUE
    /\ cards_played_this_turn = <<>>
    /\ crystal_power = 0
    /\ turn_count = 0
    /\ pending_air_cards = 0
    /\ death_screens = 0
    /\ victory_screens = 0
    /\ next_state = "None"
    /\ app_exit = FALSE
    /\ pressed_cards = {}
    /\ end_turn_pressed = FALSE
    /\ turn_start = 0
    /\ turn_at_input = "Player"

\* the four encounters the application sets up
Init ==
    /\ chapter \in Chapters
    /\ monsters = Roster(chapter)
    /\ hand = InitialHand(chapter)
    /\ InitCommon

\* the hands an encounter can be configured with: the `cards` list of
\* chapter1_setup is a list of (CardType, texture) pairs
ConfigHands(ch) ==
    UNION {[1..n -> CardType(ch)] : n \in 1..MaxInitHand}

\* the rosters an encounter can be configured with: a single monster of
\* chapter1 (40/40, attack 15), that monster next to one of chapter2
\* (21/21, attack 10), and a setup that spawns no Monster entity
ConfigRosters ==
    {<<>>, <<Monster(40, 15)>>, <<Monster(40, 15), Monster(21, 10)>>}

\* an encounter of any chapter module set up with a configured hand and roster
InitConfig ==
    /\ chapter \in Chapters
    /\ monsters \in ConfigRosters
    /\ hand \in ConfigHands(chapter)
    /\ InitCommon

(***************************************************************************)
(* The systems of one frame, in schedule order.                            *)
(***************************************************************************)
Running == next_state = "None" /\ ~app_exit

\* bevy's ui focus system before Update: the pointer presses nothing, the
\* cards under it, or the end-turn button
UiFocus ==
    /\ pc = "ui_focus"
    /\ Running
    /\ \/ /\ pressed_cards' \in {s \in SUBSET (1..Len(hand)) : Cardinality(s) <= MaxPressed}
          /\ end_turn_pressed' = FALSE
       \/ /\ pending_air_cards = 0 \/ Len(hand) + pending_air_cards <= MaxHand
          /\ death_screens < MaxDeathScreens
          /\ pressed_cards' = {}
          /\ end_turn_pressed' = TRUE
    /\ turn_at_input' = current_turn
    /\ pc' = "handle_card_click"
    /\ UNCHANGED <<chapter, monsters, player, hand, current_turn, turn_vars,
                   death_screens, victory_screens, next_state, app_exit, turn_start>>

\* mutant: an Air play queues one Air card
PlayCardAirOnce(i) ==
    LET card_type == hand[i]
        damage == CardDamage(card_type)
    IN /\ monsters' = DamageMonsters(monsters, damage)
       /\ pending_air_cards' = IF card_type = "Air" THEN pending_air_cards + 1
                                                   ELSE pending_air_cards
       /\ cards_played_this_turn' = Append(cards_played_this_turn, card_type)
       /\ first_card_played' = FALSE
       /\ hand' = RemoveAt(hand, i)
       /\ UNCHANGED <<crystal_power, turn_count>>

\* one pressed card is resolved (the loop breaks after it)
PlayCard(i) ==
    LET card_type == hand[i]
        damage == CardDamage(card_type)
    IN /\ monsters' = DamageMonsters(monsters, damage)
       /\ pending_air_cards' = IF card_type = "Air" THEN pending_air_cards + 2
                                                   ELSE pending_air_cards
       /\ cards_played_this_turn' = Append(cards_played_this_turn, card_type)
       /\ first_card_played' = FALSE
       /\ hand' = RemoveAt(hand, i)
       /\ UNCHANGED <<crystal_power, turn_count>>

\* mutant: the early return on the enemy's turn is missing
HandleCardClickAnyTurn ==
    /\ pc = "handle_card_click"
    /\ IF pressed_cards = {}
       THEN UNCHANGED <<monsters, hand, turn_vars>>
       ELSE \E i \in pressed_cards : PlayCard(i)
    /\ pressed_cards' = {}
    /\ pc' = "process_turn"
    /\ UNCHANGED <<chapter, player, current_turn, death_screens, victory_screens,
                   next_state, app_exit, end_turn_pressed, turn_start, turn_at_input>>

HandleCardClick ==
    /\ pc = "handle_card_click"
    /\ IF current_turn /= "Player" \/ pressed_cards = {}
       THEN UNCHANGED <<monsters, hand, turn_vars>>
       ELSE \E i \in pressed_cards : PlayCard(i)
    /\ pressed_cards' = {}
    /\ pc' = "process_turn"
    /\ UNCHANGED <<chapter, player, current_turn, death_screens, victory_screens,
                   next_state, app_exit, end_turn_pressed, turn_start, turn_at_input>>

\* mutant: the turn is not handed back to the player
ProcessTurnStaysEnemy ==
    /\ pc = "process_turn"
    /\ IF current_turn = "Enemy"
       THEN LET r == ApplyAttacks(player.current, death_screens, MonsterAttacks(monsters))
            IN /\ player' = [player EXCEPT !.current = r.health]
               /\ death_screens' = r.screens
               /\ UNCHANGED <<current_turn, turn_start>>
       ELSE UNCHANGED <<player, death_screens, current_turn, turn_start>>
    /\ pc' = "handle_end_turn_button"
    /\ UNCHANGED <<chapter, monsters, hand, turn_vars, victory_screens, next_state,
                   app_exit, pressed_cards, end_turn_pressed, turn_at_input>>

ProcessTurn ==
    /\ pc = "process_turn"
    /\ IF current_turn = "Enemy"
       THEN LET r == ApplyAttacks(player.current, death_screens, MonsterAttacks(monsters))
            IN /\ player' = [player EXCEPT !.current = r.health]
               /\ death_screens' = r.screens
               /\ current_turn' = "Player"
               /\ turn_start' = Len(cards_played_this_turn)
       ELSE UNCHANGED <<player, death_screens, current_turn, turn_start, turn_at_input>>
    /\ pc' = "handle_end_turn_button"
    /\ UNCHANGED <<chapter, monsters, hand, turn_vars, victory_screens, next_state,
                   app_exit, pressed_cards, end_turn_pressed, turn_at_input>>

\* mutant: the turn is ended without a press of the button
HandleEndTurnButtonUnpressed ==
    /\ pc = "handle_end_turn_button"
    /\ IF current_turn = "Player"
       THEN /\ hand' = hand \o AirCards(pending_air_cards)
            /\ current_turn' = "Enemy"
       ELSE UNCHANGED <<hand, current_turn>>
    /\ end_turn_pressed' = FALSE
    /\ pc' = "update_death_screen"
    /\ UNCHANGED <<chapter, monsters, player, turn_vars, death_screens, victory_screens,
                   next_state, app_exit, pressed_cards, turn_start, turn_at_input>>

HandleEndTurnButton ==
    /\ pc = "handle_end_turn_button"
    /\ IF end_turn_pressed /\ current_turn = "Player"
       THEN /\ hand' = hand \o AirCards(pending_air_cards)
            /\ current_turn' = "Enemy"
       ELSE UNCHANGED <<hand, current_turn>>
    /\ end_turn_pressed' = FALSE
    /\ pc' = "update_death_screen"
    /\ UNCHANGED <<chapter, monsters, player, turn_vars, death_screens, victory_screens,
                   next_state, app_exit, pressed_cards, turn_start, turn_at_input>>

\* mutant: a finished return timer requests the menu instead of the exit
UpdateDeathScreenToMenu ==
    /\ pc = "update_death_screen"
    /\ IF death_screens > 0
       THEN \E finished \in BOOLEAN :
               next_state' = IF finished THEN "Menu" ELSE next_state
       ELSE UNCHANGED next_state
    /\ pc' = "update_turn_state"
    /\ UNCHANGED <<chapter, monsters, player, hand, current_turn, turn_vars, death_screens,
                   victory_screens, app_exit, pressed_cards, end_turn_pressed, turn_start,
                   turn_at_input>>

\* every death screen's return timer is ticked; a finished one sends AppExit
UpdateDeathScreen ==
    /\ pc = "update_death_screen"
    /\ IF death_screens > 0
       THEN \E finished \in BOOLEAN : app_exit' = (app_exit \/ finished)
       ELSE UNCHANGED app_exit
    /\ pc' = "update_turn_state"
    /\ UNCHANGED <<chapter, monsters, player, hand, current_turn, turn_vars, death_screens,
                   victory_screens, next_state, pressed_cards, end_turn_pressed, turn_start, turn_at_input>>

\* mutant: the commented-out body of update_turn_state is executed
UpdateTurnStateEnabled ==
    /\ pc = "update_turn_state"
    /\ IF current_turn = "Player"
       THEN /\ cards_played_this_turn' = <<>>
            /\ crystal_power' = crystal_power + 1
            /\ turn_count' = turn_count + 1
            /\ pending_air_cards' = 0
            /\ UNCHANGED first_card_played
       ELSE UNCHANGED turn_vars
    /\ pc' = "check_victory_condition"
    /\ UNCHANGED <<chapter, monsters, player, hand, current_turn, death_screens,
                   victory_screens, next_state, app_exit, pressed_cards, end_turn_pressed,
                   turn_start, turn_at_input>>

\* the body of update_turn_state is commented out
UpdateTurnState ==
    /\ pc = "update_turn_state"
    /\ pc' = "check_victory_condition"
    /\ UNCHANGED <<chapter, monsters, player, hand, current_turn, turn_vars, death_screens,
                   victory_screens, next_state, app_exit, pressed_cards, end_turn_pressed,
                   turn_start, turn_at_input>>

\* mutant: the check for an existing victory screen is missing
CheckVictoryConditionUnguarded ==
    /\ pc = "check_victory_condition"
    /\ IF AllMonstersDead(monsters)
       THEN victory_screens' = victory_screens + 1
       ELSE UNCHANGED victory_screens
    /\ pc' = "update_victory_screen"
    /\ UNCHANGED <<chapter, monsters, player, hand, current_turn, turn_vars, death_screens,
                   next_state, app_exit, pressed_cards, end_turn_pressed, turn_start, turn_at_input>>

CheckVictoryCondition ==
    /\ pc = "check_victory_condition"
    /\ IF victory_screens = 0 /\ AllMonstersDead(monsters)
       THEN victory_screens' = victory_screens + 1
       ELSE UNCHANGED victory_screens
    /\ pc' = "update_victory_screen"
    /\ UNCHANGED <<chapter, monsters, player, hand, current_turn, turn_vars, death_screens,
                   next_state, app_exit, pressed_cards, end_turn_pressed, turn_start, turn_at_input>>

\* the return timer of a victory screen is ticked; when it has finished,
\* chapters 1-3 request the next GameState and despawn the screen, chapter 4
\* sends AppExit.  The frame ends here: the application stops running this
\* chapter's systems once it exits or leaves the chapter's GameState.
\* A death screen that exists next to a victory screen is the older of the
\* two (no monster is left to attack after the victory) and both timers run
\* 5 s on the same clock, so the victory timer has only finished when the
\* death timer has, that is when update_death_screen has sent AppExit.
UpdateVictoryScreen ==
    /\ pc = "update_victory_screen"
    /\ IF victory_screens > 0
       THEN \E finished \in (IF death_screens = 0 \/ app_exit THEN BOOLEAN ELSE {FALSE}) :
              IF finished
              THEN IF chapter = 4
                   THEN /\ app_exit' = TRUE
                        /\ UNCHANGED <<next_state, victory_screens>>
                   ELSE /\ next_state' = VictoryNextState(chapter)
                        /\ victory_screens' = 0
                        /\ UNCHANGED app_exit
              ELSE UNCHANGED <<next_state, victory_screens, app_exit>>
       ELSE UNCHANGED <<next_state, victory_screens, app_exit>>
    /\ pc' = IF app_exit' \/ next_state' /= "None" THEN "stopped" ELSE "ui_focus"
    /\ UNCHANGED <<chapter, monsters, player, hand, current_turn, turn_vars, death_screens,
                   pressed_cards, end_turn_pressed, turn_start, turn_at_input>>

Next ==
    \/ UiFocus
    \/ HandleCardClick
    \/ ProcessTurn
    \/ HandleEndTurnButton
    \/ UpdateDeathScreen
    \/ UpdateTurnState
    \/ CheckVictoryCondition
    \/ UpdateVictoryScreen

Spec == Init /\ [][Next]_vars

SpecConfig == InitConfig /\ [][Next]_vars

\* the application runs the frame's systems for as long as it is in the
\* chapter's GameState
SpecFair == Init /\ [][Next]_vars /\ WF_vars(Next)

\* a death screen's 5 s return timer finishes after finitely many frames
DeathTimerFinishes == UpdateDeathScreen /\ app_exit'

SpecTimed == Init /\ [][Next]_vars /\ WF_vars(Next) /\ SF_vars(DeathTimerFinishes)

TypeOK ==
    /\ chapter \in Chapters
    /\ current_turn \in Turn
    /\ first_card_played \in BOOLEAN
    /\ \A k \in 1..Len(hand) : hand[k] \in CardType(chapter)
    /\ \A k \in 1..Len(cards_played_this_turn) : cards_played_this_turn[k] \in CardType(chapter)
    /\ pressed_cards \subseteq 1..Len(hand)
    /\ turn_start \in 0..Len(cards_played_this_turn)
    /\ turn_at_input \in Turn

(***************************************************************************)
(* Vocabulary of the properties.                                           *)
(***************************************************************************)
Min(a, b) == IF a <= b THEN a ELSE b

Living == {m \in 1..Len(monsters) : monsters[m].alive}

\* this step is handle_card_click resolving a card of the given kind
Played(kind) ==
    /\ pc = "handle_card_click"
    /\ Len(cards_played_this_turn') = Len(cards_played_this_turn) + 1
    /\ Last(cards_played_this_turn') = kind

\* every living monster takes d, floored at 0
AllTake(d) ==
    \A m \in Living : monsters'[m].current = Max(0, monsters[m].current - d)

\* the cards played since the current player turn began
ThisTurn ==
    SubSeq(cards_played_this_turn, turn_start + 1, Len(cards_played_this_turn))

RECURSIVE LivingDamage(_, _)
LivingDamage(mons, k) ==
    IF k = 0 THEN 0
    ELSE (IF mons[k].alive THEN mons[k].damage ELSE 0) + LivingDamage(mons, k - 1)

(***************************************************************************)
(* C1: in every reachable state of every chapter's encounter, the player's *)
(* and every monster's current health lies within [0, maximum].            *)
(***************************************************************************)
C1_HealthWithinBounds ==
    /\ player.current >= 0 /\ player.current <= player.maximum
    /\ \A m \in 1..Len(monsters) :
          monsters[m].current >= 0 /\ monsters[m].current <= monsters[m].maximum

(***************************************************************************)
(* C2: Fire played as the first card of a player turn (of any player turn) *)
(* deals 15; Fire played after another card of the same player turn deals  *)
(* 8.                                                                      *)
(***************************************************************************)
C2_FireFirstOfTurn ==
    [][Played("Fire") =>
          IF ThisTurn = <<>> THEN AllTake(15) ELSE AllTake(8)]_vars

(***************************************************************************)
(* C3: Ice deals 0 when an Earth was played earlier in the same turn,      *)
(* otherwise 12 when the card played just before it in the same turn was   *)
(* Fire, otherwise 6.                                                      *)
(***************************************************************************)
C3_IceSameTurn ==
    [][Played("Ice") =>
          IF \E k \in 1..Len(ThisTurn) : ThisTurn[k] = "Earth" THEN AllTake(0)
          ELSE IF ThisTurn /= <<>> /\ Last(ThisTurn) = "Fire" THEN AllTake(12)
          ELSE AllTake(6)]_vars

C5_CrystalThisTurn ==
    [][Played("Crystal") => AllTake(4 + 2 * Len(ThisTurn) + crystal_power)]_vars

(***************************************************************************)
(* C6: Earth deals 5 + the hand size before the Earth card is removed (the *)
(* Earth card itself counted) + turn_count.                                *)
(***************************************************************************)
C6_EarthCountsHand ==
    [][Played("Earth") =>
          /\ Len(hand') = Len(hand) - 1
          /\ AllTake(5 + Len(hand) + turn_count)]_vars

\* chapter 1: Earth played first from the hand of four leaves both monsters at 40 - 9
C6_Witness ==
    /\ chapter = 1
    /\ cards_played_this_turn = <<"Earth">>
    /\ Len(hand) = 3
    /\ \A m \in 1..Len(monsters) : monsters[m].current = 31

(***************************************************************************)
(* C7: in chapter 4, Heal played while a monster is at full health heals   *)
(* that monster by 8 clamped at its maximum, so its health is unchanged.   *)
(***************************************************************************)
C7_HealAtFullHealth ==
    [][chapter = 4 /\ Played("Heal") =>
          \A m \in Living :
              monsters[m].current = monsters[m].maximum =>
                  /\ monsters'[m].current = Min(monsters[m].maximum, monsters[m].current + 8)
                  /\ monsters'[m].current = monsters[m].current]_vars

(***************************************************************************)
(* C8: in chapter 4, Heal played while no monster is at full health deals  *)
(* 8 damage to every living monster.                                       *)
(***************************************************************************)
C8_HealBelowFullHealth ==
    [][(/\ chapter = 4
        /\ Played("Heal")
        /\ \A m \in Living : monsters[m].current /= monsters[m].maximum)
          => AllTake(8)]_vars

C10_CardRejectedOnEnemyTurn ==
    [][(pc = "handle_card_click" /\ pressed_cards /= {} /\ current_turn = "Enemy") =>
          UNCHANGED <<monsters, player, hand, cards_played_this_turn,
                      first_card_played, pending_air_cards, current_turn>>]_vars

\* handle_card_click is about to run with a pressed card on the enemy's turn
C10_Witness ==
    /\ pc = "handle_card_click"
    /\ pressed_cards /= {}
    /\ current_turn = "Enemy"
    /\ cards_played_this_turn /= <<>>
    /\ Living /= {}

(***************************************************************************)
(* C11: an end-turn press that arrived while the turn owner was Enemy      *)
(* changes nothing when handle_end_turn_button handles it: the turn owner, *)
(* the player's and the monsters' health and the hand (no Air cards        *)
(* granted) stay as they are.                                              *)
(***************************************************************************)
C11_EndTurnOnEnemyTurnIgnored ==
    [][(pc = "handle_end_turn_button" /\ end_turn_pressed /\ turn_at_input = "Enemy") =>
          UNCHANGED <<current_turn, player, monsters, hand>>]_vars

(***************************************************************************)
(* C12: once the outcome is Victory (every monster at 0) or Defeat (the    *)
(* player at 0), no later step changes the combat state: health, hand,     *)
(* turn owner and the turn record stay as they are.                        *)
(***************************************************************************)
Victory == AllMonstersDead(monsters)

Defeat == player.current = 0

C12_FrozenAfterOutcome ==
    [][(Victory \/ Defeat) =>
          UNCHANGED <<monsters, player, hand, current_turn, turn_vars>>]_vars

(***************************************************************************)
(* C13: victory is declared exactly once: check_victory_condition run with *)
(* every monster dead leaves exactly one victory screen, a screen is only  *)
(* spawned when none exists, never more than one exists, and the one       *)
(* screen only goes away when the chapter is left.                         *)
(***************************************************************************)
C13_VictoryDeclaredOnce ==
    [][/\ victory_screens' <= 1
       /\ (pc = "check_victory_condition" /\ Victory => victory_screens' = 1)
       /\ (victory_screens' > victory_screens =>
              pc = "check_victory_condition" /\ victory_screens = 0 /\ Victory)
       /\ (victory_screens' < victory_screens =>
              pc' = "stopped" /\ next_state' /= "None")]_vars

\* a victory screen spawned in an earlier frame is still the only one after
\* an end-turn press was accepted in this frame
C13_Witness ==
    /\ victory_screens = 1
    /\ Victory
    /\ pc = "update_death_screen"
    /\ current_turn = "Enemy"

(***************************************************************************)
(* C14: defeat is recorded at most once: at most one death screen ever     *)
(* exists.                                                                 *)
(***************************************************************************)
C14_OneDeathScreen ==
    death_screens <= 1

(***************************************************************************)
(* C15: with the player at 100/100 and one monster at 40/40 with attack    *)
(* 15, Fire played as the first card leaves the monster at 25/40, the      *)
(* end-turn press that follows hands the turn to the enemy, and the enemy  *)
(* turn leaves the player at 85/100 with the turn owner Player again.      *)
(***************************************************************************)
Scenario ==
    /\ Len(monsters) = 1
    /\ monsters[1].maximum = 40
    /\ monsters[1].damage = 15
    /\ player.maximum = 100

C17_EnemyTurnResolves ==
    /\ [][/\ (pc = "process_turn" /\ current_turn = "Enemy" =>
                 /\ player'.current =
                       Max(0, player.current - LivingDamage(monsters, Len(monsters)))
                 /\ player'.maximum = player.maximum
                 /\ monsters' = monsters
                 /\ current_turn' = "Player")
          /\ (pc = "process_turn" => current_turn' = "Player")]_vars
    /\ (current_turn = "Enemy" ~> (current_turn = "Player" \/ pc = "stopped"))

\* chapter1: both monsters (15 and 10) have attacked once and the turn is
\* the player's again
C17_Witness ==
    /\ chapter = 1
    /\ pc = "handle_end_turn_button"
    /\ turn_at_input = "Enemy"
    /\ Cardinality(Living) = 2
    /\ player.current = 75
    /\ current_turn = "Player"

(***************************************************************************)
(* C18: when the enemy turn brings the player to 0, the turn owner stays   *)
(* Enemy.                                                                  *)
(***************************************************************************)
C18_DefeatKeepsEnemyTurn ==
    [][(pc = "process_turn" /\ current_turn = "Enemy" /\ player'.current = 0) =>
          current_turn' = "Enemy"]_vars

(***************************************************************************)
(* C19: in every reachable state first_card_played is true exactly when no *)
(* card has been played since the current player turn began.               *)
(***************************************************************************)
C19_FirstCardFlag ==
    first_card_played <=> (ThisTurn = <<>>)

(***************************************************************************)
(* C20: the only GameState an encounter requests is the interlude that     *)
(* follows its chapter in the order Chapter1, Game2, Chapter2, Game3,      *)
(* Chapter3, Game4, Chapter4, requested by update_victory_screen with a    *)
(* victory screen present, and that interlude requests the next chapter;   *)
(* chapter4 requests no state and only stops by exiting the application.   *)
(***************************************************************************)
StageOrder ==
    <<"Chapter1", "Game2", "Chapter2", "Game3", "Chapter3", "Game4", "Chapter4">>

C20_VictoryAdvancesInOrder ==
    [][/\ (next_state' /= next_state =>
              /\ pc = "update_victory_screen"
              /\ victory_screens > 0 /\ Victory
              /\ chapter < 4
              /\ next_state = "None"
              /\ next_state' = StageOrder[2 * chapter]
              /\ GameNextState(next_state') = StageOrder[2 * chapter + 1])
       /\ (chapter = 4 /\ pc' = "stopped" => app_exit' /\ next_state' = "None")
       /\ chapter' = chapter]_vars

\* chapter3 was won and has requested Game4
C20_Witness ==
    /\ chapter = 3
    /\ pc = "stopped"
    /\ next_state = "Game4"
    /\ ~app_exit
    /\ Victory

C23_CardPlayEffects ==
    [][pc = "handle_card_click" =>
         IF current_turn = "Player" /\ pressed_cards /= {}
         THEN \E i \in pressed_cards :
                 /\ cards_played_this_turn' = Append(cards_played_this_turn, hand[i])
                 /\ first_card_played' = FALSE
                 /\ Len(hand') = Len(hand) - 1
                 /\ \A k \in 1..Len(hand') :
                       hand'[k] = IF k < i THEN hand[k] ELSE hand[k + 1]
         ELSE UNCHANGED <<hand, cards_played_this_turn, first_card_played>>]_vars

\* handle_card_click is about to run on the player's turn with two pressed
\* cards, after an earlier play
C23_Witness ==
    /\ pc = "handle_card_click"
    /\ Cardinality(pressed_cards) = 2
    /\ current_turn = "Player"
    /\ cards_played_this_turn /= <<>>
    /\ Living /= {}

(***************************************************************************)
(* C24: handle_card_click changes neither the turn owner nor the player's  *)
(* health; the turn owner only changes from Player to Enemy in             *)
(* handle_end_turn_button handling a press, and from Enemy to Player in    *)
(* process_turn.                                                           *)
(***************************************************************************)
C24_TurnOwnerTransitions ==
    [][/\ (pc = "handle_card_click" => UNCHANGED <<current_turn, player>>)
       /\ (current_turn' /= current_turn =>
              \/ /\ current_turn = "Player" /\ current_turn' = "Enemy"
                 /\ pc = "handle_end_turn_button" /\ end_turn_pressed
              \/ /\ current_turn = "Enemy" /\ current_turn' = "Player"
                 /\ pc = "process_turn")]_vars

\* a card has been played in a player turn that followed an enemy turn
C24_Witness ==
    /\ pc = "process_turn"
    /\ turn_start > 0
    /\ Len(cards_played_this_turn) > turn_start
    /\ current_turn = "Player"
    /\ player.current < player.maximum
    /\ player.current > 0

(***************************************************************************)
(* C25: cards_played_this_turn only grows by appending and its length is   *)
(* the number of cards played since the encounter began (no chapter's hand *)
(* holds Air, so that is the initial hand size less the hand size); an     *)
(* Earth played in any earlier turn makes Ice deal 0, and Crystal's bonus  *)
(* counts the cards of all turns.                                          *)
(***************************************************************************)
C25_CardsPlayedNeverCleared ==
    [][/\ Len(cards_played_this_turn') >= Len(cards_played_this_turn)
       /\ SubSeq(cards_played_this_turn', 1, Len(cards_played_this_turn))
             = cards_played_this_turn
       /\ Len(cards_played_this_turn') = Len(InitialHand(chapter)) - Len(hand')
       /\ ((/\ Played("Ice")
            /\ \E k \in 1..Len(cards_played_this_turn) :
                   cards_played_this_turn[k] = "Earth")
              => AllTake(0))
       /\ (Played("Crystal") =>
              AllTake(CRYSTAL_BASE_DAMAGE + 2 * Len(cards_played_this_turn)))]_vars

\* chapter1: Earth (9) was played in the first turn and Ice in the second
\* turn dealt 0
C25_Witness ==
    /\ chapter = 1
    /\ cards_played_this_turn = <<"Earth", "Ice">>
    /\ turn_start = 1
    /\ monsters[1].current = 31 /\ monsters[2].current = 31

(***************************************************************************)
(* C26: crystal_power and turn_count are 0 in every reachable state, so a  *)
(* Crystal play deals 4 + 2 x (cards already played) and an Earth play     *)
(* deals 5 + (hand size before the card leaves it).                        *)
(***************************************************************************)
C26_PowerAndTurnCountZero ==
    [][/\ crystal_power = 0 /\ turn_count = 0
       /\ crystal_power' = 0 /\ turn_count' = 0
       /\ (Played("Crystal") => AllTake(4 + 2 * Len(cards_played_this_turn)))
       /\ (Played("Earth") => AllTake(5 + Len(hand)))]_vars

\* chapter1: Fire (15) and Earth (5 + 3) in the first turn, Crystal (4 + 4)
\* in the second turn
C26_Witness ==
    /\ chapter = 1
    /\ cards_played_this_turn = <<"Fire", "Earth", "Crystal">>
    /\ turn_start = 2
    /\ monsters[1].current = 9
    /\ crystal_power = 0 /\ turn_count = 0

(***************************************************************************)
(* C27: first_card_played never returns to true and is false once a card   *)
(* has been played; a Fire play deals 15 only as the very first card of    *)
(* the encounter and 8 after any other play, whatever the turn.            *)
(***************************************************************************)
C27_FirstCardFlagStaysFalse ==
    [][/\ (~first_card_played => ~first_card_played')
       /\ (cards_played_this_turn' /= <<>> => ~first_card_played')
       /\ (Played("Fire") =>
              IF cards_played_this_turn = <<>>
              THEN AllTake(FIRE_BASE_DAMAGE + FIRE_FIRST_CARD_BONUS)
              ELSE AllTake(FIRE_BASE_DAMAGE))]_vars

\* chapter3: Earth (9) in the first turn, Fire as the first card of the
\* second turn dealt 8
C27_Witness ==
    /\ chapter = 3
    /\ cards_played_this_turn = <<"Earth", "Fire">>
    /\ turn_start = 1
    /\ monsters[1].current = 27
    /\ ~first_card_played

(***************************************************************************)
(* C28: pending_air_cards never decreases and is twice the number of Air   *)
(* cards played so far; every end-turn press handled on the player's turn  *)
(* appends exactly pending_air_cards Air cards to the hand and leaves the  *)
(* counter as it is, so cards granted before are granted again.            *)
(***************************************************************************)
AirCount(s) == Cardinality({k \in 1..Len(s) : s[k] = "Air"})

C29_Chapter2VictoryOrder ==
    chapter = 2 =>
       /\ Len(hand) + Len(cards_played_this_turn) = 3
       /\ (Victory <=> cards_played_this_turn = <<"Ice", "Earth", "Crystal">>)
       /\ ((hand = <<>> /\ cards_played_this_turn /= <<"Ice", "Earth", "Crystal">>)
              => Cardinality(Living) = 2)

\* chapter2 has been won with the three cards and the victory screen is up
C29_Witness ==
    /\ chapter = 2
    /\ cards_played_this_turn = <<"Ice", "Earth", "Crystal">>
    /\ hand = <<>>
    /\ \A m \in 1..Len(monsters) : monsters[m].current = 0 /\ ~monsters[m].alive
    /\ victory_screens = 1

(***************************************************************************)
(* C30: in chapter 3 no card is ever added to the four of the initial      *)
(* hand; the monster is dead exactly when the cards played are Fire, Ice,  *)
(* Earth, Crystal in that order (15 + 12 + 7 + 10 = 44), and any other     *)
(* order that empties the hand leaves the monster alive.                   *)
(***************************************************************************)
C30_Chapter3VictoryOrder ==
    chapter = 3 =>
       /\ Len(hand) + Len(cards_played_this_turn) = 4
       /\ (Victory <=> cards_played_this_turn = <<"Fire", "Ice", "Earth", "Crystal">>)
       /\ ((hand = <<>> /\ cards_played_this_turn /= <<"Fire", "Ice", "Earth", "Crystal">>)
              => Living = {1})

\* chapter3 has been won with the four cards, spread over two turns, and the
\* victory screen is up
C30_Witness ==
    /\ chapter = 3
    /\ cards_played_this_turn = <<"Fire", "Ice", "Earth", "Crystal">>
    /\ hand = <<>>
    /\ turn_start > 0
    /\ monsters[1].current = 0 /\ ~monsters[1].alive
    /\ victory_screens = 1

====
